---------------------------- MODULE Spec2Model ----------------------------
(***************************************************************************)
(* A model of create_pam_script_improved.py: one run of the bulk on-board  *)
(* script.  The run reads a CSV of host/credential rows, optionally probes *)
(* every host concurrently, generates a pamUser/pamMachine record pair per *)
(* distinct hostname and hands four documents to _write.                   *)
(*                                                                         *)
(* Text is modelled as a sequence of symbols.  A symbol is one character   *)
(* (" ", "'", a letter) or one literal word of the script ("keeper",       *)
(* "--enable"); the functions that inspect text (str.strip, str.replace,   *)
(* the JSON encoder and decoder, "\n".join) work symbol by symbol.         *)
(*                                                                         *)
(* Taken as given: the header of the CSV names the three columns; the      *)
(* timestamps of the log name and of the file headers are opaque; open()   *)
(* in _write succeeds; the pool has a worker for every probe (--threads    *)
(* bounds how many probes run at once, not the order they finish in).      *)
(***************************************************************************)
EXTENDS Integers, Sequences, FiniteSets, TLC

VARIABLES
    pc,        \* where main() is
    args,      \* the argparse.Namespace of the run
    csvfile,   \* the file at args.csv: [exists, rows], rows the data rows after the header
    fs,        \* the working directory: path -> [exists, data, mtime]
    rows,      \* main's local "rows"
    fut,       \* the futures of the probe phase, by submission index
    ok,        \* main's local "ok"
    records,   \* main's local "records"
    written,   \* the calls made to _write, in order: [path, content, dry]
    exc        \* the uncaught exception that ended the run, "" when none

vars == <<pc, args, csvfile, fs, rows, fut, ok, records, written, exc>>

-----------------------------------------------------------------------------
(* Bounds of the model.                                                    *)

MaxRows == 3
MaxSched == 3

-----------------------------------------------------------------------------
(* Text helpers.                                                           *)

SeqsUpTo(S, n) == UNION {[1..k -> S] : k \in 0..n}

RECURSIVE Concat(_)
Concat(ss) == IF ss = <<>> THEN <<>> ELSE Head(ss) \o Concat(Tail(ss))

RECURSIVE Join(_, _)
Join(sep, ss) ==
    IF ss = <<>> THEN <<>>
    ELSE IF Len(ss) = 1 THEN ss[1]
    ELSE ss[1] \o sep \o Join(sep, Tail(ss))

IsSpace(c) == c \in {" ", "\t"}

RECURSIVE LStrip(_)
LStrip(s) == IF s # <<>> /\ IsSpace(Head(s)) THEN LStrip(Tail(s)) ELSE s

RECURSIVE RStrip(_)
RStrip(s) ==
    IF s # <<>> /\ IsSpace(s[Len(s)]) THEN RStrip(SubSeq(s, 1, Len(s) - 1)) ELSE s

Strip(s) == RStrip(LStrip(s))

Replace(s, old, new) == [i \in 1..Len(s) |-> IF s[i] = old THEN new ELSE s[i]]

Digit == <<"0", "1", "2", "3", "4", "5", "6", "7", "8", "9">>

RECURSIVE IntToStr(_)
IntToStr(n) ==
    IF n < 10 THEN <<Digit[n + 1]>> ELSE IntToStr(n \div 10) \o <<Digit[(n % 10) + 1]>>

EndsWith(s, suffix) ==
    /\ Len(suffix) <= Len(s)
    /\ SubSeq(s, Len(s) - Len(suffix) + 1, Len(s)) = suffix

StartsWith(s, prefix) ==
    /\ Len(prefix) <= Len(s)
    /\ SubSeq(s, 1, Len(prefix)) = prefix

Contains(s, part) ==
    \E i \in 1..(Len(s) - Len(part) + 1) : SubSeq(s, i, i + Len(part) - 1) = part

(* Python's None beside a str: an optional text. *)
None == [none |-> TRUE, s |-> <<>>]
Some(s) == [none |-> FALSE, s |-> s]
Truthy(o) == ~o.none /\ o.s # <<>>

-----------------------------------------------------------------------------
(* Constants of the script.                                                *)

Protocols == {"rdp", "ssh", "sql-server", "mysql", "postgresql"}

_DEFAULT_PORTS ==
    [p \in Protocols |->
        CASE p = "rdp" -> 3389
          [] p = "ssh" -> 22
          [] p = "sql-server" -> 1433
          [] p = "mysql" -> 3306
          [] p = "postgresql" -> 5432]

JsonPath == "pam_records_import.json"
SetupPath == "pam_setup_commands.txt"
ConnPath == "pam_connection_commands.txt"
RotPath == "pam_rotation_commands.txt"
LogPath == "bulk_onboard_<utcnow>.log"
OutputPaths == {JsonPath, SetupPath, ConnPath, RotPath}
Paths == OutputPaths \cup {LogPath}


-----------------------------------------------------------------------------
(* Logging: every logger call reaches the console handler and the file     *)
(* handler; the file handler appends the record to the run log.            *)

LogRec(lvl, msg) == [lvl |-> lvl, msg |-> msg]

NoFile == [exists |-> FALSE, data |-> <<>>, mtime |-> 0]

(* logging.FileHandler(path): opens the file for append, creating it. *)
OpenAppend(f, path) ==
    IF f[path].exists THEN f
    ELSE [f EXCEPT ![path] = [exists |-> TRUE, data |-> <<>>, mtime |-> @.mtime + 1]]

(* The file handler's emit, once per record of recs. *)
Emit(f, recs) ==
    IF recs = <<>> THEN f
    ELSE [f EXCEPT ![LogPath] =
            [exists |-> TRUE, data |-> @.data \o recs, mtime |-> @.mtime + Len(recs)]]

-----------------------------------------------------------------------------
(* _read_csv                                                               *)

Header == <<"hostname", "initial_admin_user", "initial_admin_password">>

(* csv.DictReader: a blank line yields no row; a row shorter than the      *)
(* header has its missing keys filled with restval, which is None.         *)
DictRows(lines) == SelectSeq(lines, LAMBDA r : r # <<>>)

DictGet(row, i) == IF i <= Len(row) THEN Some(row[i]) ELSE None

HostEntry(h, u, p) == [hostname |-> h, user |-> u, password |-> p]

RowIncompleteMsg(line_no) ==
    LogRec("WARNING", <<"Row", " ">> \o IntToStr(line_no) \o <<" ", "incomplete", " ", "skipped">>)

(* The loop of _read_csv from row line_no on: "ok" with the entries and    *)
(* the warnings, or "raise" when .strip() is called on None.               *)
RECURSIVE ReadLoop(_, _, _, _)
ReadLoop(drows, line_no, out, log) ==
    IF line_no > Len(drows) THEN [outcome |-> "ok", out |-> out, log |-> log]
    ELSE LET row == drows[line_no]
             hc == DictGet(row, 1)
             uc == DictGet(row, 2)
             pw == DictGet(row, 3)
         IN  IF hc.none \/ uc.none \/ pw.none
             THEN [outcome |-> "raise", out |-> out, log |-> log]
             ELSE LET h == Strip(hc.s)
                      u == Strip(uc.s)
                      p == Strip(pw.s)
                  IN  IF h = <<>> \/ u = <<>> \/ p = <<>>
                      THEN ReadLoop(drows, line_no + 1, out,
                                    Append(log, RowIncompleteMsg(line_no)))
                      ELSE ReadLoop(drows, line_no + 1,
                                    Append(out, HostEntry(h, u, p)), log)

CsvNotFoundMsg == LogRec("ERROR", <<"CSV file not found">>)

(* _read_csv without the existence test of lines 163-165. *)
ReadCsvNoExit(file) == ReadLoop(DictRows(file.rows), 1, <<>>, <<>>)

_read_csv(file) ==
    IF ~file.exists
    THEN [outcome |-> "exit", out |-> <<>>, log |-> <<CsvNotFoundMsg>>]
    ELSE ReadLoop(DictRows(file.rows), 1, <<>>, <<>>)

-----------------------------------------------------------------------------
(* JSON-shaped values: what the record dictionaries are made of.           *)

JS(s) == [t |-> "str", v |-> s]
JB(b) == [t |-> "bool", v |-> b]
JA(xs) == [t |-> "arr", v |-> xs]
JO(kvs) == [t |-> "obj", v |-> kvs]

Get(o, k) == o.v[CHOOSE i \in 1..Len(o.v) : o.v[i][1] = <<k>>][2]

-----------------------------------------------------------------------------
(* _gen_records                                                            *)

(* One uuid4 value drawn before the loop and used for every host. *)
Uuid4HexOnce(k) == <<"uuid4-", "1">>

(* uuid.uuid4().hex: the k-th value drawn in the run.  uuid4 values are    *)
(* 122 random bits; the model takes two draws of one run to differ.        *)
Uuid4Hex(k) == <<"uuid4-", ToString(k)>>

LocalAdmin(host) == host \o <<" ", "Local", " ", "Admin">>

Folders(sf) ==
    JA(<< JO(<< <<<<"shared_folder">>, JS(sf)>>,
                <<<<"can_edit">>, JB(TRUE)>>,
                <<<<"can_share">>, JB(TRUE)>> >>) >>)

PamUser(row, tmp_uid, a) ==
    JO(<< <<<<"$type">>, JS(<<"pamUser">>)>>,
          <<<<"uid">>, JS(tmp_uid)>>,
          <<<<"title">>, JS(LocalAdmin(row.hostname))>>,
          <<<<"login">>, JS(row.user)>>,
          <<<<"password">>, JS(row.password)>>,
          <<<<"folders">>, Folders(a.user_folder)>> >>)

PamMachine(row, tmp_uid, port, a) ==
    JO(<< <<<<"$type">>, JS(<<"pamMachine">>)>>,
          <<<<"title">>, JS(row.hostname)>>,
          <<<<"login">>, JS(<<"stub">>)>>,
          <<<<"password">>, JS(<<"stub">>)>>,
          <<<<"folders">>, Folders(a.resource_folder)>>,
          <<<<"custom_fields">>,
            JO(<< <<<<"$pamSettings">>,
                    JO(<< <<<<"connection">>, JO(<<>>)>>,
                          <<<<"portForward">>, JO(<<>>)>> >>)>>,
                  <<<<"$pamHostname">>,
                    JO(<< <<<<"hostName">>, JS(row.hostname)>>,
                          <<<<"port">>, JS(port)>> >>)>>,
                  <<<<"$checkbox:sslVerification">>, JB(a.enable_ssl_verification)>>,
                  <<<<"operatingSystem">>, JS(a.os)>> >>)>>,
          <<<<"links">>, JA(<<JS(tmp_uid)>>)>> >>)

DuplicateMsg(host) == LogRec("WARNING", <<"Duplicate hostname", " ">> \o host \o <<" ", "skipped">>)

(* The loop of _gen_records from entry i on; drawn counts the uuid4 calls. *)
RECURSIVE GenLoop(_, _, _, _, _, _, _)
GenLoop(rs, i, seen, drawn, recs, log, a) ==
    IF i > Len(rs) THEN [recs |-> recs, log |-> log]
    ELSE LET row == rs[i]
             host == row.hostname
             port == IntToStr(_DEFAULT_PORTS[a.protocol])
             tmp_uid == Uuid4Hex(drawn + 1)
         IN  IF host \in seen
             THEN GenLoop(rs, i + 1, seen, drawn, recs, Append(log, DuplicateMsg(host)), a)
             ELSE GenLoop(rs, i + 1, seen \cup {host}, drawn + 1,
                          recs \o <<PamUser(row, tmp_uid, a), PamMachine(row, tmp_uid, port, a)>>,
                          log, a)

_gen_records(rs, a) == GenLoop(rs, 1, {}, 0, <<>>, <<>>, a)

-----------------------------------------------------------------------------
(* json.dumps(obj, indent=2) and json.loads, symbol by symbol.             *)

Quote == "\""
Backslash == "\\"

(* An encoder that escapes nothing. *)
EscapeSymPlain(c) == <<c>>

(* The encoder's escapes of a string's symbols. *)
EscapeSym(c) ==
    CASE c = Quote -> <<Backslash, Quote>>
      [] c = Backslash -> <<Backslash, Backslash>>
      [] c = "\n" -> <<Backslash, "n">>
      [] c = "\t" -> <<Backslash, "t">>
      [] OTHER -> <<c>>

DumpStr(s) == <<Quote>> \o Concat([i \in 1..Len(s) |-> EscapeSym(s[i])]) \o <<Quote>>

Indent(level) == [i \in 1..(2 * level) |-> " "]
NewlineIndent(level) == <<"\n">> \o Indent(level)

RECURSIVE Dump(_, _)
Dump(x, level) ==
    CASE x.t = "str" -> DumpStr(x.v)
      [] x.t = "bool" -> IF x.v THEN <<"true">> ELSE <<"false">>
      [] x.t = "arr" ->
            IF x.v = <<>> THEN <<"[", "]">>
            ELSE <<"[">> \o NewlineIndent(level + 1)
                 \o Join(<<",">> \o NewlineIndent(level + 1),
                         [i \in 1..Len(x.v) |-> Dump(x.v[i], level + 1)])
                 \o NewlineIndent(level) \o <<"]">>
      [] x.t = "obj" ->
            IF x.v = <<>> THEN <<"{", "}">>
            ELSE <<"{">> \o NewlineIndent(level + 1)
                 \o Join(<<",">> \o NewlineIndent(level + 1),
                         [i \in 1..Len(x.v) |->
                            DumpStr(x.v[i][1]) \o <<":", " ">> \o Dump(x.v[i][2], level + 1)])
                 \o NewlineIndent(level) \o <<"}">>

json_dumps(x) == Dump(x, 0)

(* The decoder reads text t from index i and answers [v, i]: the value and *)
(* the index after it; v.t = "error" when the text is no JSON.             *)
JErr == [t |-> "error", v |-> <<>>]
At(t, i) == IF i <= Len(t) THEN t[i] ELSE "<eof>"

RECURSIVE SkipWs(_, _)
SkipWs(t, i) == IF At(t, i) \in {" ", "\n", "\t"} THEN SkipWs(t, i + 1) ELSE i

UnescapeSym(c) ==
    CASE c = "n" -> "\n"
      [] c = "t" -> "\t"
      [] OTHER -> c

RECURSIVE ParseStr(_, _, _)
ParseStr(t, i, acc) ==
    CASE At(t, i) = "<eof>" -> [v |-> JErr, i |-> i]
      [] At(t, i) = Quote -> [v |-> JS(acc), i |-> i + 1]
      [] At(t, i) = Backslash -> ParseStr(t, i + 2, Append(acc, UnescapeSym(At(t, i + 1))))
      [] OTHER -> ParseStr(t, i + 1, Append(acc, t[i]))

RECURSIVE ParseValue(_, _)
RECURSIVE ParseArr(_, _, _)
RECURSIVE ParseObj(_, _, _)

(* The elements of an array, i at the first symbol after "[" or ",". *)
ParseArr(t, i, acc) ==
    LET j == SkipWs(t, i)
    IN  IF At(t, j) = "]" /\ acc = <<>> THEN [v |-> JA(acc), i |-> j + 1]
        ELSE LET e == ParseValue(t, j)
                 k == SkipWs(t, e.i)
             IN  CASE e.v.t = "error" -> [v |-> JErr, i |-> e.i]
                   [] At(t, k) = "," -> ParseArr(t, k + 1, Append(acc, e.v))
                   [] At(t, k) = "]" -> [v |-> JA(Append(acc, e.v)), i |-> k + 1]
                   [] OTHER -> [v |-> JErr, i |-> k]

(* A later pair with the key of an earlier one replaces its value. *)
SetKey(kvs, key, val) ==
    IF \E n \in 1..Len(kvs) : kvs[n][1] = key
    THEN [n \in 1..Len(kvs) |-> IF kvs[n][1] = key THEN <<key, val>> ELSE kvs[n]]
    ELSE Append(kvs, <<key, val>>)

(* The pairs of an object, i at the first symbol after "{" or ",". *)
ParseObj(t, i, acc) ==
    LET j == SkipWs(t, i)
    IN  IF At(t, j) = "}" /\ acc = <<>> THEN [v |-> JO(acc), i |-> j + 1]
        ELSE IF At(t, j) # Quote THEN [v |-> JErr, i |-> j]
        ELSE LET key == ParseStr(t, j + 1, <<>>)
                 c == SkipWs(t, key.i)
             IN  IF key.v.t = "error" \/ At(t, c) # ":" THEN [v |-> JErr, i |-> c]
                 ELSE LET e == ParseValue(t, c + 1)
                          k == SkipWs(t, e.i)
                      IN  CASE e.v.t = "error" -> [v |-> JErr, i |-> e.i]
                            [] At(t, k) = "," -> ParseObj(t, k + 1, SetKey(acc, key.v.v, e.v))
                            [] At(t, k) = "}" ->
                                 [v |-> JO(SetKey(acc, key.v.v, e.v)), i |-> k + 1]
                            [] OTHER -> [v |-> JErr, i |-> k]

ParseValue(t, i) ==
    LET j == SkipWs(t, i)
    IN  CASE At(t, j) = "{" -> ParseObj(t, j + 1, <<>>)
          [] At(t, j) = "[" -> ParseArr(t, j + 1, <<>>)
          [] At(t, j) = Quote -> ParseStr(t, j + 1, <<>>)
          [] At(t, j) = "true" -> [v |-> JB(TRUE), i |-> j + 1]
          [] At(t, j) = "false" -> [v |-> JB(FALSE), i |-> j + 1]
          [] OTHER -> [v |-> JErr, i |-> j]

json_loads(t) ==
    LET r == ParseValue(t, 1)
    IN  IF r.v.t # "error" /\ SkipWs(t, r.i) = Len(t) + 1 THEN r.v ELSE JErr

-----------------------------------------------------------------------------
(* The writers.                                                            *)

(* _write without the test of dry. *)
WriteAlways(f, fpath, content, dry) ==
    Emit([f EXCEPT ![fpath] =
             [exists |-> TRUE, data |-> content, mtime |-> @.mtime + 1]],
         <<LogRec("INFO", <<"Wrote", " ", fpath>>)>>)

(* _write: the working directory after the call. *)
_write(f, fpath, content, dry) ==
    IF dry
    THEN Emit(f, <<LogRec("INFO", <<"[DRY-RUN] Would write", " ", fpath>>)>>)
    ELSE Emit([f EXCEPT ![fpath] =
                  [exists |-> TRUE, data |-> content, mtime |-> @.mtime + 1]],
              <<LogRec("INFO", <<"Wrote", " ", fpath>>)>>)

(* datetime.utcnow() in the header is one opaque symbol. *)
_cmdfile_header(title) ==
    <<"#", " ", "====", " ", title, " ", "generated", " ", "<utcnow>", " ", "===", "\n", "\n">>

FileText(lines) == Join(<<"\n">>, lines) \o <<"\n">>

ImportWrapper(recs) ==
    JO(<< <<<<"shared_folders">>, JA(<<>>)>>, <<<<"records">>, JA(recs)>> >>)

ImportJsonText(recs) == json_dumps(ImportWrapper(recs))

Quoted(s) == <<Quote>> \o s \o <<Quote>>

SetupLines(a) ==
    LET cfg_title == <<"Config", " ", "for", " ">> \o a.resource_folder
        cfg_cmd == <<"keeper", " ", "pam", " ", "config", " ", "new", " ",
                     "--environment", " ", "local", " ", "--title", " ">>
                   \o Quoted(cfg_title) \o <<" ", "--shared-folder", " ">>
                   \o Quoted(a.resource_folder) \o <<" ", "-g", " ">> \o a.gateway_uid
                   \o <<" ", "--connections=on", " ", "--rotation=on">>
        move(sf) == <<"keeper", " ", "folder", " ", "move", " ">>
                    \o Quoted(<<"/">> \o sf) \o <<" ">>
                    \o Quoted(<<"/">> \o a.parent_folder.s \o <<"/">> \o sf)
    IN  << _cmdfile_header("SETUP"),
           <<"keeper", " ", "import", " ", JsonPath, " ", "--format", " ", "json", "\n">>,
           cfg_cmd \o <<"\n">> >>
        \o (IF Truthy(a.parent_folder)
            THEN <<move(a.user_folder), move(a.resource_folder)>>
            ELSE <<>>)

MachinePath(host, a) == Quoted(<<"/">> \o a.resource_folder \o <<"/">> \o host)
UserPath(host, a) == Quoted(<<"/">> \o a.user_folder \o <<"/">> \o LocalAdmin(host))
CfgPath(a) == Quoted(<<"/">> \o a.resource_folder)

ConnectionLine(row, a) ==
    <<"keeper", " ", "pam", " ", "connection", " ", "edit", " ">>
    \o MachinePath(row.hostname, a) \o <<" ", "--config", " ">> \o CfgPath(a)
    \o <<" ", "--admin-user", " ">> \o UserPath(row.hostname, a)
    \o <<" ", "--protocol", " ", a.protocol, " ", "--connections", " ", "on", " ",
         "--connections-override-port", " ">>
    \o IntToStr(_DEFAULT_PORTS[a.protocol])

ConnectionLines(rs, a) ==
    <<_cmdfile_header("CONNECTIONS")>> \o [i \in 1..Len(rs) |-> ConnectionLine(rs[i], a)]

(* The schedule passed through as given. *)
SchedRaw(a) == a.schedulejson

Sched(a) == Replace(a.schedulejson, "'", Quote)

AdmFlag(a) ==
    IF Truthy(a.rotation_admin_uid)
    THEN <<" ", "--admin-user", " ">> \o a.rotation_admin_uid.s
    ELSE <<>>

RotationLine(row, a) ==
    <<"keeper", " ", "pam", " ", "rotation", " ", "set", " ", "--record", " ">>
    \o UserPath(row.hostname, a) \o <<" ", "--resource", " ">>
    \o MachinePath(row.hostname, a) \o <<" ", "--config", " ">> \o CfgPath(a)
    \o <<" ", "--enable">> \o AdmFlag(a) \o <<" ", "-sj", " ", "'">> \o Sched(a) \o <<"'">>

RotationLines(rs, a) ==
    <<_cmdfile_header("ROTATION")>> \o [i \in 1..Len(rs) |-> RotationLine(rs[i], a)]

-----------------------------------------------------------------------------
(* _probe                                                                  *)

(* The encoding of the host name that socket.create_connection does first  *)
(* (the idna codec) raises UnicodeError on an empty label that is not the  *)
(* last one; UnicodeError is a ValueError, not an OSError.                 *)
IdnaFails(host) ==
    \E i \in 1..Len(host) :
        /\ host[i] = "."
        /\ (i = 1 \/ host[i - 1] = ".")

(* What socket.create_connection((host, 5986), 3.0) can do. *)
ConnectOutcomes(host) ==
    IF IdnaFails(host) THEN {"UnicodeError"} ELSE {"connected", "OSError"}

(* _probe: True, False, or the exception it lets through. *)
_probe(outcome) ==
    CASE outcome = "connected" -> "True"
      [] outcome = "OSError" -> "False"
      [] OTHER -> outcome

-----------------------------------------------------------------------------
(* The run: module start-up, then main().                                  *)

Future(row) == [row |-> row, state |-> "pending", result |-> "", yielded |-> FALSE]

AllDone == \A i \in 1..Len(fut) : fut[i].state = "done"
AllYielded == \A i \in 1..Len(fut) : fut[i].yielded

ProbingMsg(n) ==
    LogRec("INFO", <<"Running TCP 5986 probe on", " ">> \o IntToStr(n) \o <<" ", "hosts">>)
UnreachableMsg(host) == LogRec("WARNING", host \o <<" ", "unreachable">>)
ProcessingMsg(n) ==
    LogRec("INFO", <<"Processing", " ">> \o IntToStr(n) \o <<" ", "servers">>)

(* Lines 40-52: importing the module opens the run log. *)
Startup ==
    /\ pc = "import"
    /\ fs' = OpenAppend(fs, LogPath)
    /\ pc' = "main"
    /\ UNCHANGED <<args, csvfile, rows, fut, ok, records, written, exc>>

(* Line 368: rows = _read_csv(Path(args.csv)). *)
ReadCsv ==
    /\ pc = "main"
    /\ LET r == _read_csv(csvfile)
       IN  /\ fs' = Emit(fs, r.log)
           /\ rows' = IF r.outcome = "ok" THEN r.out ELSE rows
           /\ exc' = IF r.outcome = "raise" THEN "AttributeError" ELSE exc
           /\ pc' = CASE r.outcome = "exit" -> "exit1"
                      [] r.outcome = "raise" -> "crashed"
                      [] r.outcome = "ok" /\ args.connectivity_check -> "submit"
                      [] OTHER -> "gen"
    /\ UNCHANGED <<args, csvfile, fut, ok, records, written>>

(* Lines 370-375: one future per row, in row order. *)
Submit ==
    /\ pc = "submit"
    /\ fs' = Emit(fs, <<ProbingMsg(Len(rows))>>)
    /\ fut' = [i \in 1..Len(rows) |-> Future(rows[i])]
    /\ ok' = <<>>
    /\ pc' = "collect"
    /\ UNCHANGED <<args, csvfile, rows, records, written, exc>>

(* A pool worker finishes _probe for future i.  The pool's size bounds how *)
(* many probes run at once, not the order in which they finish.            *)
ProbeDone(i) ==
    /\ pc \in {"collect", "shutdown"}
    /\ fut[i].state = "pending"
    /\ \E o \in ConnectOutcomes(fut[i].row.hostname) :
          fut' = [fut EXCEPT ![i].state = "done", ![i].result = _probe(o)]
    /\ UNCHANGED <<pc, args, csvfile, fs, rows, ok, records, written, exc>>

(* Lines 376-380: as_completed hands over a finished future that it has    *)
(* not handed over yet; f.result() answers or re-raises.                   *)
Collect(i) ==
    /\ pc = "collect"
    /\ fut[i].state = "done"
    /\ ~fut[i].yielded
    /\ fut' = [fut EXCEPT ![i].yielded = TRUE]
    /\ ok' = IF fut[i].result = "True" THEN Append(ok, fut[i].row) ELSE ok
    /\ fs' = IF fut[i].result = "False"
             THEN Emit(fs, <<UnreachableMsg(fut[i].row.hostname)>>)
             ELSE fs
    /\ exc' = IF fut[i].result \in {"True", "False"} THEN exc ELSE fut[i].result
    /\ pc' = IF fut[i].result \in {"True", "False"} THEN "collect" ELSE "shutdown"
    /\ UNCHANGED <<args, csvfile, rows, records, written>>

(* Line 381: the loop is over, the pool is shut down, rows = ok. *)
EndCollect ==
    /\ pc = "collect"
    /\ AllYielded
    /\ rows' = ok
    /\ pc' = "gen"
    /\ UNCHANGED <<args, csvfile, fs, fut, ok, records, written, exc>>

(* The with block left by an exception: the pool's shutdown waits for the  *)
(* probes still running, then the exception leaves main.                   *)
Shutdown ==
    /\ pc = "shutdown"
    /\ AllDone
    /\ pc' = "crashed"
    /\ UNCHANGED <<args, csvfile, fs, rows, fut, ok, records, written, exc>>

(* Lines 382-384. *)
GenRecords ==
    /\ pc = "gen"
    /\ LET g == _gen_records(rows, args)
       IN  /\ records' = g.recs
           /\ fs' = Emit(fs, <<ProcessingMsg(Len(rows))>> \o g.log)
    /\ pc' = "write_json"
    /\ UNCHANGED <<args, csvfile, rows, fut, ok, written, exc>>

Call_write(fpath, content) ==
    /\ fs' = _write(fs, fpath, content, args.dry_run)
    /\ written' = Append(written, [path |-> fpath, content |-> content, dry |-> args.dry_run])

(* Line 385: write_import_json(records, args). *)
WriteImportJson ==
    /\ pc = "write_json"
    /\ Call_write(JsonPath, ImportJsonText(records))
    /\ pc' = "write_setup"
    /\ UNCHANGED <<args, csvfile, rows, fut, ok, records, exc>>

(* Line 386: write_setup_commands(args). *)
WriteSetupCommands ==
    /\ pc = "write_setup"
    /\ Call_write(SetupPath, FileText(SetupLines(args)))
    /\ pc' = "write_conn"
    /\ UNCHANGED <<args, csvfile, rows, fut, ok, records, exc>>

(* Line 387: write_connection_commands(rows, args). *)
WriteConnectionCommands ==
    /\ pc = "write_conn"
    /\ Call_write(ConnPath, FileText(ConnectionLines(rows, args)))
    /\ pc' = "write_rot"
    /\ UNCHANGED <<args, csvfile, rows, fut, ok, records, exc>>

(* Line 388: write_rotation_commands(rows, args); main returns. *)
WriteRotationCommands ==
    /\ pc = "write_rot"
    /\ Call_write(RotPath, FileText(RotationLines(rows, args)))
    /\ pc' = "done"
    /\ UNCHANGED <<args, csvfile, rows, fut, ok, records, exc>>

Terminated == pc \in {"done", "exit1", "crashed"}

(* The process's exit status once it has ended: 0 when main returns, 1 on  *)
(* sys.exit(1) and on an uncaught exception.                               *)
ExitCode == IF pc = "done" THEN 0 ELSE 1

-----------------------------------------------------------------------------
(* The inputs of a run: the command line, the CSV, the working directory.  *)

DefaultSchedule ==
    <<"{", Quote, "type", Quote, ":", Quote, "DAILY", Quote, ",",
           Quote, "time", Quote, ":", Quote, "02:00", Quote, ",",
           Quote, "tz", Quote, ":", Quote, "UTC", Quote, "}">>

(* The defaults of _build_cli, with the flags given. *)
Args(protocol, dry, check) ==
    [gateway_uid |-> <<"GW">>,
     user_folder |-> <<"PAM_Users">>,
     resource_folder |-> <<"PAM_Resources">>,
     parent_folder |-> None,
     rotation_admin_uid |-> None,
     schedulejson |-> DefaultSchedule,
     protocol |-> protocol,
     os |-> <<"Windows">>,
     enable_ssl_verification |-> FALSE,
     dry_run |-> dry,
     connectivity_check |-> check]

MissingCsv == [exists |-> FALSE, rows |-> <<>>]
CsvOf(lines) == [exists |-> TRUE, rows |-> lines]

(* A file left by an earlier run. *)
Stale(path) ==
    [exists |-> TRUE,
     data |-> IF path = LogPath THEN <<LogRec("INFO", <<"earlier run">>)>> ELSE <<"stale">>,
     mtime |-> 0]
Dir(present) == [p \in Paths |-> IF p \in present THEN Stale(p) ELSE NoFile]

(* Rows of the runs explored: two rows for host a with different           *)
(* credentials, a row for host b, a row whose host name has an empty       *)
(* label, a row with an empty user, a row that ends before its password.   *)
RunRows ==
    { << <<"a">>, <<"u">>, <<"p">> >>,
      << <<"a">>, <<"v">>, <<"q">> >>,
      << <<"b">>, <<"u">>, <<"p">> >>,
      << <<".", "a">>, <<"u">>, <<"p">> >>,
      << <<"b">>, <<>>, <<"p">> >>,
      << <<"b">>, <<"u">> >> }

Init ==
    /\ pc = "import"
    /\ args \in {Args("rdp", d, c) : d \in BOOLEAN, c \in BOOLEAN}
    /\ csvfile \in {MissingCsv} \cup {CsvOf(l) : l \in SeqsUpTo(RunRows, MaxRows)}
    /\ fs \in {Dir({}), Dir(Paths)}
    /\ rows = <<>>
    /\ fut = <<>>
    /\ ok = <<>>
    /\ records = <<>>
    /\ written = <<>>
    /\ exc = ""

Next ==
    \/ Startup
    \/ ReadCsv
    \/ Submit
    \/ \E i \in 1..Len(fut) : ProbeDone(i)
    \/ \E i \in 1..Len(fut) : Collect(i)
    \/ EndCollect
    \/ Shutdown
    \/ GenRecords
    \/ WriteImportJson
    \/ WriteSetupCommands
    \/ WriteConnectionCommands
    \/ WriteRotationCommands

Spec == Init /\ [][Next]_vars

-----------------------------------------------------------------------------
(* The pipeline from the CSV to the import document, without the           *)
(* connectivity check, over CSVs that exercise trimming, case, missing     *)
(* and empty cells, blank lines and characters the JSON encoder escapes.   *)

GenRows ==
    { << <<"a">>, <<"u">>, <<"p">> >>,
      << <<"A">>, <<"u">>, <<"p">> >>,
      << <<" ", "a", " ">>, <<"v">>, <<"q", Quote>> >>,
      << <<" ">>, <<"u">>, <<"p">> >>,
      << <<"b">>, <<>>, <<"p">> >>,
      << <<"b">>, <<"u">>, <<"\t">> >>,
      << <<"b">>, <<"u">> >>,
      << >>,
      << <<"b">>, <<" ", "u">>, <<Backslash, "p">> >> }

InitGen ==
    /\ pc = "import"
    /\ args \in {[Args(p, FALSE, FALSE) EXCEPT !.enable_ssl_verification = v] :
                    p \in Protocols, v \in BOOLEAN}
    /\ csvfile \in {CsvOf(l) : l \in SeqsUpTo(GenRows, MaxRows)}
    /\ fs = Dir({})
    /\ rows = <<>>
    /\ fut = <<>>
    /\ ok = <<>>
    /\ records = <<>>
    /\ written = <<>>
    /\ exc = ""

NextGen ==
    \/ Startup
    \/ ReadCsv
    \/ GenRecords
    \/ WriteImportJson

SpecGen == InitGen /\ [][NextGen]_vars

-----------------------------------------------------------------------------
(* write_rotation_commands applied to entry lists, schedules and           *)
(* rotation-admin identifiers, as the unit test applies it.                *)

SchedSyms == {"'", Quote, "x"}
RotEntries == {HostEntry(<<"a">>, <<"u">>, <<"p">>), HostEntry(<<"b">>, <<"u">>, <<"p">>)}
RotAdminUids == {None, Some(<<>>), Some(<<"ADM">>)}

InitRot ==
    /\ pc = "write_rot"
    /\ args \in {[Args("rdp", d, FALSE) EXCEPT !.schedulejson = sj, !.rotation_admin_uid = u] :
                    d \in BOOLEAN, sj \in SeqsUpTo(SchedSyms, MaxSched), u \in RotAdminUids}
    /\ csvfile = MissingCsv
    /\ fs = OpenAppend(Dir({}), LogPath)
    /\ rows \in SeqsUpTo(RotEntries, MaxRows)
    /\ fut = <<>>
    /\ ok = <<>>
    /\ records = <<>>
    /\ written = <<>>
    /\ exc = ""

NextRot == WriteRotationCommands

SpecRot == InitRot /\ [][NextRot]_vars

-----------------------------------------------------------------------------
(* Vocabulary of the properties.                                           *)

PostGen == pc \in {"write_json", "write_setup", "write_conn", "write_rot", "done"}
PostFilter == pc = "gen" \/ PostGen

IsUser(r) == Get(r, "$type").v = <<"pamUser">>
IsMachine(r) == Get(r, "$type").v = <<"pamMachine">>
Title(r) == Get(r, "title").v
Uid(r) == Get(r, "uid").v
Links(r) == Get(r, "links").v
StoredPort(r) == Get(Get(Get(r, "custom_fields"), "$pamHostname"), "port").v

Machines(recs) == SelectSeq(recs, IsMachine)

(* The entries _read_csv loads from the CSV of the run. *)
Loaded == _read_csv(csvfile).out

(* A CSV row with the three cells present and non-empty once trimmed. *)
FullyPopulated(line) ==
    /\ Len(line) >= 3
    /\ \A i \in 1..3 : Strip(line[i]) # <<>>

RECURSIVE FirstOccurrences(_)
FirstOccurrences(hs) ==
    IF hs = <<>> THEN <<>>
    ELSE LET init == FirstOccurrences(SubSeq(hs, 1, Len(hs) - 1))
             last == hs[Len(hs)]
         IN  IF \E i \in 1..Len(init) : init[i] = last THEN init ELSE Append(init, last)

(* The distinct host names of the fully populated rows, by first occurrence. *)
ExpectedHosts ==
    LET full == SelectSeq(csvfile.rows, FullyPopulated)
    IN  FirstOccurrences([i \in 1..Len(full) |-> Strip(full[i][1])])

(* The lines of a text, and those that are commands. *)
RECURSIVE SplitLines(_)
SplitLines(t) ==
    IF t = <<>> THEN <<>>
    ELSE IF \E i \in 1..Len(t) : t[i] = "\n"
    THEN LET n == CHOOSE i \in 1..Len(t) : t[i] = "\n" /\ \A j \in 1..(i - 1) : t[j] # "\n"
         IN  <<SubSeq(t, 1, n - 1)>> \o SplitLines(SubSeq(t, n + 1, Len(t)))
    ELSE <<t>>

CommandLines(t) == SelectSeq(SplitLines(t), LAMBDA l : l # <<>> /\ l[1] = "keeper")

WasWritten(path) == \E k \in 1..Len(written) : written[k].path = path
ContentOf(path) == written[CHOOSE k \in 1..Len(written) : written[k].path = path].content

-----------------------------------------------------------------------------
(* The records, once generated, are one pamUser/pamMachine pair per        *)
(* distinct host name of the fully populated rows, by first occurrence.    *)
C1_PairsMatchHosts ==
    PostGen =>
        /\ Len(records) = 2 * Len(ExpectedHosts)
        /\ \A k \in 1..Len(ExpectedHosts) :
              /\ IsUser(records[2 * k - 1])
              /\ Title(records[2 * k - 1]) = LocalAdmin(ExpectedHosts[k])
              /\ IsMachine(records[2 * k])
              /\ Title(records[2 * k]) = ExpectedHosts[k]

(* C1: in a run without the connectivity check, every CSV is read and the  *)
(* records generated from it are one pamUser/pamMachine pair per distinct  *)
(* host name of the fully populated rows, in the order of first            *)
(* occurrence.                                                             *)
C1_EveryCsvYieldsItsPairs ==
    /\ (csvfile.exists /\ pc \notin {"import", "main"}) => pc # "crashed"
    /\ C1_PairsMatchHosts

-----------------------------------------------------------------------------
(* The first loaded entry, in file order, with the host name. *)
FirstLoadedWith(host) ==
    Loaded[CHOOSE i \in 1..Len(Loaded) :
              /\ Loaded[i].hostname = host
              /\ \A j \in 1..(i - 1) : Loaded[j].hostname # host]

(* C2: of the loaded rows with one host name only the first in file order  *)
(* produces records, with or without the connectivity check: one pair per  *)
(* host name at most, with the login and the password of that first row.   *)
C2_FirstRowWins ==
    PostGen =>
        /\ \A i, j \in 1..Len(records) :
              (IsMachine(records[i]) /\ IsMachine(records[j]) /\ i # j)
                 => Title(records[i]) # Title(records[j])
        /\ \A i \in 1..Len(records) :
              IsMachine(records[i]) =>
                 /\ i > 1
                 /\ IsUser(records[i - 1])
                 /\ Get(records[i - 1], "login").v = FirstLoadedWith(Title(records[i])).user
                 /\ Get(records[i - 1], "password").v
                       = FirstLoadedWith(Title(records[i])).password

-----------------------------------------------------------------------------
(* C3: every pamMachine record links exactly one uid, the uid of the       *)
(* pamUser record just before it, which is titled "<host> Local Admin";    *)
(* no two pamUser records share a uid and every uid is linked by exactly   *)
(* one pamMachine record.                                                  *)
C3_LinksPairUp ==
    PostGen =>
        /\ \A j \in 1..Len(records) :
              IsMachine(records[j]) =>
                 /\ Len(Links(records[j])) = 1
                 /\ j > 1
                 /\ IsUser(records[j - 1])
                 /\ Links(records[j])[1] = JS(Uid(records[j - 1]))
                 /\ Title(records[j - 1]) = LocalAdmin(Title(records[j]))
        /\ \A i, j \in 1..Len(records) :
              (IsUser(records[i]) /\ IsUser(records[j]) /\ i # j)
                 => Uid(records[i]) # Uid(records[j])
        /\ \A i \in 1..Len(records) :
              IsUser(records[i]) =>
                 Cardinality({j \in 1..Len(records) :
                                 /\ IsMachine(records[j])
                                 /\ \E n \in 1..Len(Links(records[j])) :
                                       Links(records[j])[n] = JS(Uid(records[i]))}) = 1

(* Records generated for two hosts from entries that hold a duplicate. *)
C3_TwoPairsWithDuplicate ==
    /\ pc = "write_json"
    /\ Len(records) >= 4
    /\ 2 * Len(rows) > Len(records)

-----------------------------------------------------------------------------
(* The loaded entries whose probe answered True, in submission order. *)
ReachableInCsvOrder ==
    LET kept == SelectSeq(fut, LAMBDA f : f.result = "True")
    IN  [i \in 1..Len(kept) |-> kept[i].row]

(* C4: with the connectivity check, whatever the order in which the probes *)
(* complete, the entries kept are the loaded entries whose probe answered  *)
(* True, in CSV order.                                                     *)
C4_FilterKeepsCsvOrder ==
    (args.connectivity_check /\ PostFilter) => rows = ReachableInCsvOrder

-----------------------------------------------------------------------------
(* A file the run has neither created nor written: every creation and      *)
(* every write advances the file's mtime from its value at start, 0.       *)
Untouched(path) == fs[path].mtime = 0

DryRunMsg(path) == LogRec("INFO", <<"[DRY-RUN] Would write", " ", path>>)

(* C5 as stated: with --dry-run, from module start-up to the last writer   *)
(* no file of the working directory is created or modified.                *)
C5_DryRunTouchesNoFile ==
    args.dry_run => \A p \in Paths : Untouched(p)

(* C5: with --dry-run no step of the run creates or changes any of the     *)
(* four output files, and each call of _write only appends its intent to   *)
(* the run log, which the start-up has created.                            *)
C5_DryRunKeepsOutputFiles ==
    [][args.dry_run =>
          /\ \A p \in OutputPaths : fs'[p] = fs[p]
          /\ fs'[LogPath].exists
          /\ written' # written =>
                fs'[LogPath].data
                   = Append(fs[LogPath].data, DryRunMsg(written'[Len(written')].path))]_vars

(* A dry run that has gone through its four writers with entries to write. *)
C5_DryRunCompleted ==
    /\ args.dry_run
    /\ pc = "done"
    /\ Len(written) = 4
    /\ rows # <<>>

-----------------------------------------------------------------------------
WrittenPaths == [k \in 1..Len(written) |-> written[k].path]

MissingCsvExitsFirst ==
    ~csvfile.exists =>
        /\ pc \in {"import", "main", "exit1"}
        /\ pc = "exit1" => ExitCode = 1
        /\ fut = <<>>
        /\ written = <<>>
        /\ \A p \in OutputPaths : Untouched(p)

(* C6 as stated: a missing CSV ends the run with exit code 1 before any    *)
(* probe or output file; every other run that completes exits 0 with the   *)
(* four output files written, JSON, setup, connection, rotation.           *)
C6_CompletedRunWritesFourFiles ==
    /\ MissingCsvExitsFirst
    /\ (csvfile.exists /\ pc = "done") =>
          /\ ExitCode = 0
          /\ WrittenPaths = <<JsonPath, SetupPath, ConnPath, RotPath>>
          /\ \A p \in OutputPaths : fs[p].exists /\ ~Untouched(p)

(* C6: a missing CSV ends the run with exit code 1 before any probe or     *)
(* output file; every other run that completes exits 0 after the four      *)
(* writers have run in the order JSON, setup, connection, rotation, and    *)
(* each of the four files holds what its writer produced unless the run    *)
(* is a dry run, which leaves the four files as they were.                 *)
C6_CompletedRunRunsFourWriters ==
    /\ MissingCsvExitsFirst
    /\ (csvfile.exists /\ pc = "done") =>
          /\ ExitCode = 0
          /\ WrittenPaths = <<JsonPath, SetupPath, ConnPath, RotPath>>
          /\ \A k \in 1..Len(written) :
                IF args.dry_run
                THEN Untouched(written[k].path)
                ELSE /\ fs[written[k].path].exists
                     /\ fs[written[k].path].data = written[k].content
                     /\ fs[written[k].path].mtime = 1

(* A run over a CSV with rows, none of which survives, that wrote its four files. *)
C6_NoEntryLeftFilesWritten ==
    /\ pc = "done"
    /\ csvfile.rows # <<>>
    /\ fut # <<>>
    /\ rows = <<>>
    /\ ~args.dry_run
    /\ \A p \in OutputPaths : fs[p].exists /\ ~Untouched(p)

-----------------------------------------------------------------------------
(* C7: the document write_import_json hands to _write goes to              *)
(* pam_records_import.json and parses back to an object with exactly the   *)
(* keys shared_folders, an empty array, and records, the array of the      *)
(* generated records: same count, order, titles, uids and links.           *)
C7_ImportJsonRoundTrip ==
    WasWritten(JsonPath) =>
        /\ written[1].path = JsonPath
        /\ LET doc == json_loads(written[1].content)
           IN  /\ doc.t = "obj"
               /\ Len(doc.v) = 2
               /\ {doc.v[i][1] : i \in 1..Len(doc.v)} = {<<"shared_folders">>, <<"records">>}
               /\ Get(doc, "shared_folders") = JA(<<>>)
               /\ Get(doc, "records").t = "arr"
               /\ LET back == Get(doc, "records").v
                  IN  /\ Len(back) = Len(records)
                      /\ \A i \in 1..Len(back) :
                            /\ back[i] = records[i]
                            /\ Title(back[i]) = Title(records[i])
                            /\ IsUser(records[i]) => Uid(back[i]) = Uid(records[i])
                            /\ IsMachine(records[i]) => Links(back[i]) = Links(records[i])

(* A document of two pairs, one password holding a double quote. *)
C7_TwoPairsWithQuoteWritten ==
    /\ WasWritten(JsonPath)
    /\ Len(records) >= 4
    /\ \E i \in 1..Len(records) :
          \E n \in 1..Len(Get(records[i], "password").v) :
             Get(records[i], "password").v[n] = Quote

-----------------------------------------------------------------------------
(* A rotation-admin identifier was supplied: the option was given a value  *)
(* that is not empty.                                                      *)
AdminSupplied == ~args.rotation_admin_uid.none /\ args.rotation_admin_uid.s # <<>>

(* The schedule with every single quote turned into a double quote. *)
DoubleQuoted(sj) == [i \in 1..Len(sj) |-> IF sj[i] \in {"'", Quote} THEN Quote ELSE sj[i]]

(* C8: every command line of the rotation file ends with -sj '<schedule>', *)
(* the schedule being the input with each single quote replaced by a       *)
(* double quote; the line holds " --admin-user <uid>" exactly when a       *)
(* rotation-admin identifier was supplied, and without it no double space  *)
(* precedes -sj.                                                           *)
C8_RotationLineFormat ==
    WasWritten(RotPath) =>
        LET cmds == CommandLines(ContentOf(RotPath))
            sj == DoubleQuoted(args.schedulejson)
        IN  /\ Len(cmds) = Len(rows)
            /\ \A n \in 1..Len(sj) : sj[n] # "'"
            /\ \A i \in 1..Len(cmds) :
                  /\ EndsWith(cmds[i], <<" ", "-sj", " ", "'">> \o sj \o <<"'">>)
                  /\ AdminSupplied <=>
                        Contains(cmds[i], <<" ", "--admin-user", " ">> \o args.rotation_admin_uid.s
                                          \o <<" ", "-sj">>)
                  /\ AdminSupplied <=> (\E n \in 1..Len(cmds[i]) : cmds[i][n] = "--admin-user")
                  /\ ~AdminSupplied => ~Contains(cmds[i], <<" ", " ", "-sj">>)

(* Two rotation commands written for a schedule that mixes single and      *)
(* double quotes, without a rotation-admin identifier.                     *)
C8_MixedQuotesNoAdmin ==
    /\ pc = "done"
    /\ WasWritten(RotPath)
    /\ Len(CommandLines(ContentOf(RotPath))) >= 2
    /\ \E n \in 1..Len(args.schedulejson) : args.schedulejson[n] = "'"
    /\ \E n \in 1..Len(args.schedulejson) : args.schedulejson[n] = Quote
    /\ ~AdminSupplied

-----------------------------------------------------------------------------
HostNamed(l, host) == Contains(l, <<"/">> \o host \o <<Quote>>)

(* C9: with the connectivity check, a probe that fails answers False and   *)
(* nothing else; no failure of a probe ends the run; the entries are       *)
(* filtered only once every probe is done; the host of a failed probe is   *)
(* in no record and in no connection or rotation command; and the run,     *)
(* when it ends, has called its four writers.                              *)
C9_ProbeFailureOnlyFilters ==
    args.connectivity_check =>
        /\ \A i \in 1..Len(fut) :
              fut[i].state = "done" => fut[i].result \in {"True", "False"}
        /\ fut # <<>> => pc \notin {"shutdown", "crashed"}
        /\ PostFilter => AllDone
        /\ (Terminated /\ fut # <<>>) => (pc = "done" /\ Len(written) = 4)
        /\ \A i \in 1..Len(fut) :
              fut[i].result = "False" =>
                 /\ \A j \in 1..Len(records) : Title(records[j]) # fut[i].row.hostname
                 /\ \A path \in {ConnPath, RotPath} :
                       WasWritten(path) =>
                          \A n \in 1..Len(CommandLines(ContentOf(path))) :
                             ~HostNamed(CommandLines(ContentOf(path))[n], fut[i].row.hostname)

-----------------------------------------------------------------------------
(* C10: the connection file and the rotation file each hold exactly one    *)
(* command per pamMachine record of the JSON, in the order of the records, *)
(* no host in two commands of a file, and the port of each connection      *)
(* command is the port stored in the machine record.                       *)
C10_CommandsMatchRecords ==
    (pc = "done") =>
        LET ms == Machines(records)
            conn == CommandLines(ContentOf(ConnPath))
            rot == CommandLines(ContentOf(RotPath))
        IN  /\ Len(conn) = Len(ms)
            /\ Len(rot) = Len(ms)
            /\ \A i \in 1..Len(ms) :
                  /\ StartsWith(conn[i], <<"keeper", " ", "pam", " ", "connection", " ", "edit", " ">>
                                         \o MachinePath(Title(ms[i]), args))
                  /\ EndsWith(conn[i], <<" ", "--connections-override-port", " ">>
                                       \o StoredPort(ms[i]))
                  /\ Contains(rot[i], <<" ", "--resource", " ">> \o MachinePath(Title(ms[i]), args))
            /\ \A i, j \in 1..Len(ms) : i # j => Title(ms[i]) # Title(ms[j])

=============================================================================
